---- MODULE Spec2Model ----
(***************************************************************************)
(* Warehouse bookkeeping of hy-ohtuvarasto: the Warehouse class            *)
(* (src/src/warehouse.py) on top of the Varasto ledger, and the registry   *)
(* and request handlers of the Flask application (src/src/app.py).         *)
(*                                                                         *)
(* Quantities are Python floats.  They are modelled as a binary floating   *)
(* point format of reduced width: Prec mantissa bits, exponents 0..MaxExp, *)
(* round-to-nearest-even, overflow to infinity, and NaN.  The unit is the  *)
(* smallest positive value of the format, so every finite value is an      *)
(* integer.                                                                *)
(***************************************************************************)
EXTENDS Integers, Sequences, FiniteSets, TLC

\* ------------------------------------------------------------------ bounds
Prec == 2          \* mantissa bits of the modelled float format
MaxExp == 1        \* largest exponent of the modelled float format
MaxId == 2         \* create requests are served while next_warehouse_id <= MaxId

\* ------------------------------------------------------------ float values
RECURSIVE Pow2(_)
Pow2(n) == IF n = 0 THEN 1 ELSE 2 * Pow2(n - 1)

MaxFinite == (Pow2(Prec) - 1) * Pow2(MaxExp)

Fin(v) == [k |-> "fin", v |-> v]
Inf == [k |-> "inf", v |-> 1]
NInf == [k |-> "inf", v |-> -1]
NaN == [k |-> "nan", v |-> 0]
None == [k |-> "none", v |-> 0]

Zero == Fin(0)

\* exponent at which the magnitude m is stored: the least e with m < 2^Prec * 2^e
RECURSIVE ExpOf(_, _)
ExpOf(m, e) == IF m < Pow2(Prec) * Pow2(e) THEN e ELSE ExpOf(m, e + 1)

\* round-to-nearest, ties-to-even, of the magnitude m
RoundMag(m) ==
    LET e == ExpOf(m, 0)
        u == Pow2(e)
        q == m \div u
        r == m % u
    IN  IF r = 0 THEN m
        ELSE IF 2 * r > u \/ (2 * r = u /\ q % 2 = 1) THEN (q + 1) * u
        ELSE q * u

\* the float nearest to the integer x
Round(x) ==
    LET m == IF x < 0 THEN -x ELSE x
        g == RoundMag(m)
    IN  IF g > MaxFinite THEN (IF x < 0 THEN NInf ELSE Inf)
        ELSE Fin(IF x < 0 THEN -g ELSE g)

fNeg(a) == IF a.k = "nan" THEN NaN ELSE [k |-> a.k, v |-> -a.v]

fAdd(a, b) ==
    IF a.k = "nan" \/ b.k = "nan" THEN NaN
    ELSE IF a.k = "inf" /\ b.k = "inf" THEN (IF a.v = b.v THEN a ELSE NaN)
    ELSE IF a.k = "inf" THEN a
    ELSE IF b.k = "inf" THEN b
    ELSE Round(a.v + b.v)

fSub(a, b) == fAdd(a, fNeg(b))

\* position of a non-NaN value on the extended number line
Ord(a) == IF a.k = "inf" THEN a.v * (MaxFinite + 1) ELSE a.v

fLt(a, b) == a.k # "nan" /\ b.k # "nan" /\ Ord(a) < Ord(b)
fLe(a, b) == a.k # "nan" /\ b.k # "nan" /\ Ord(a) <= Ord(b)
fGt(a, b) == fLt(b, a)
fGe(a, b) == fLe(b, a)
fEq(a, b) == a.k # "nan" /\ b.k # "nan" /\ Ord(a) = Ord(b)

\* ------------------------------------------------------ items (a dict)
\* A Python dict keeps insertion order: a sequence of [name, qty] entries
\* with pairwise distinct names.
Keys(items) == {items[i].name : i \in DOMAIN items}

Get(items, n) == items[CHOOSE i \in DOMAIN items : items[i].name = n].qty

Put(items, n, q) ==
    IF n \in Keys(items)
    THEN [i \in DOMAIN items |->
            IF items[i].name = n THEN [name |-> n, qty |-> q] ELSE items[i]]
    ELSE Append(items, [name |-> n, qty |-> q])

KeepOthers(items, n) == LET keep(e) == e.name # n IN SelectSeq(items, keep)

\* sum(items.values()): left to right over the insertion order, from int 0
RECURSIVE SumFrom(_, _, _)
SumFrom(items, i, acc) ==
    IF i > Len(items) THEN acc
    ELSE SumFrom(items, i + 1, fAdd(acc, items[i].qty))

ItemSum(items) == SumFrom(items, 1, Zero)

\* ------------------------------------------------- Varasto (the ledger)
\* varasto.py is not among the sources; the ledger follows spec.md 4.1.
Varasto_init(tilavuus, alku_saldo) ==
    IF fLe(tilavuus, Zero) \/ fLt(alku_saldo, Zero) \/ fGt(alku_saldo, tilavuus)
    THEN [ok |-> FALSE, tilavuus |-> Zero, saldo |-> Zero]
    ELSE [ok |-> TRUE, tilavuus |-> tilavuus, saldo |-> alku_saldo]

paljonko_mahtuu(w) == fSub(w.tilavuus, w.saldo)

lisaa_varastoon(w, maara) ==
    IF fLe(maara, Zero) THEN w
    ELSE IF fGt(maara, paljonko_mahtuu(w)) THEN w
    ELSE [w EXCEPT !.saldo = fAdd(w.saldo, maara)]

ota_varastosta(w, maara) ==
    IF fLe(maara, Zero) THEN w
    ELSE IF fGt(maara, w.saldo) THEN w
    ELSE [w EXCEPT !.saldo = fSub(w.saldo, maara)]

\* ------------------------------------------------------------ Warehouse
ErrQuantity == "Quantity must be positive"
ErrSpace == "Not enough space in warehouse"
ErrNotFound == "Item not found"
ErrNotEnough == "Not enough items to remove"
NoError == "None"

Result(w, ok, err) == [w |-> w, ok |-> ok, err |-> err]

\* the constructor as it would be with the two ledger arguments swapped
Warehouse_init_swapped(name, tilavuus, alku_saldo) ==
    LET v == Varasto_init(alku_saldo, tilavuus)
    IN  Result([name |-> name, tilavuus |-> v.tilavuus, saldo |-> v.saldo,
                items |-> <<>>], v.ok, NoError)

\* Warehouse(name, tilavuus, alku_saldo): ok = FALSE when the ledger's
\* constructor rejects its arguments and no object comes into existence
Warehouse_init(name, tilavuus, alku_saldo) ==
    LET v == Varasto_init(tilavuus, alku_saldo)
    IN  Result([name |-> name, tilavuus |-> v.tilavuus, saldo |-> v.saldo,
                items |-> <<>>], v.ok, NoError)

\* add_item as it would be with the upsert of items ahead of the space check
Warehouse_add_item_upsert_first(w, item_name, quantity) ==
    IF fLe(quantity, Zero) THEN Result(w, FALSE, ErrQuantity)
    ELSE LET q1 == IF item_name \in Keys(w.items)
                   THEN fAdd(Get(w.items, item_name), quantity)
                   ELSE quantity
             w1 == [w EXCEPT !.items = Put(w.items, item_name, q1)]
         IN  IF fGt(quantity, paljonko_mahtuu(w))
             THEN Result(w1, FALSE, ErrSpace)
             ELSE Result(lisaa_varastoon(w1, quantity), TRUE, NoError)

\* add_item as it would be if it stored the quantity instead of adding it
Warehouse_add_item_overwrite(w, item_name, quantity) ==
    IF fLe(quantity, Zero) THEN Result(w, FALSE, ErrQuantity)
    ELSE IF fGt(quantity, paljonko_mahtuu(w)) THEN Result(w, FALSE, ErrSpace)
    ELSE LET w1 == lisaa_varastoon(w, quantity)
         IN  Result([w1 EXCEPT !.items = Put(w1.items, item_name, quantity)],
                    TRUE, NoError)

Warehouse_add_item(w, item_name, quantity) ==
    IF fLe(quantity, Zero) THEN Result(w, FALSE, ErrQuantity)
    ELSE IF fGt(quantity, paljonko_mahtuu(w)) THEN Result(w, FALSE, ErrSpace)
    ELSE LET w1 == lisaa_varastoon(w, quantity)
             q1 == IF item_name \in Keys(w1.items)
                   THEN fAdd(Get(w1.items, item_name), quantity)
                   ELSE quantity
         IN  Result([w1 EXCEPT !.items = Put(w1.items, item_name, q1)],
                    TRUE, NoError)

\* remove_item as it would be with the sign check ahead of the lookup
Warehouse_remove_item_sign_first(w, item_name, quantity) ==
    IF quantity # None /\ fLe(quantity, Zero)
    THEN Result(w, FALSE, ErrQuantity)
    ELSE IF item_name \notin Keys(w.items) THEN Result(w, FALSE, ErrNotFound)
    ELSE LET qty == IF quantity = None THEN Get(w.items, item_name)
                    ELSE quantity
         IN  IF fGt(qty, Get(w.items, item_name))
             THEN Result(w, FALSE, ErrNotEnough)
             ELSE LET w1 == ota_varastosta(w, qty)
                      q1 == fSub(Get(w1.items, item_name), qty)
                  IN  Result([w1 EXCEPT !.items =
                                 IF fEq(q1, Zero)
                                 THEN KeepOthers(w1.items, item_name)
                                 ELSE Put(w1.items, item_name, q1)],
                             TRUE, NoError)

Warehouse_remove_item(w, item_name, quantity) ==
    IF item_name \notin Keys(w.items) THEN Result(w, FALSE, ErrNotFound)
    ELSE LET qty == IF quantity = None THEN Get(w.items, item_name)
                    ELSE quantity
         IN  IF fLe(qty, Zero) THEN Result(w, FALSE, ErrQuantity)
             ELSE IF fGt(qty, Get(w.items, item_name))
                  THEN Result(w, FALSE, ErrNotEnough)
             ELSE LET w1 == ota_varastosta(w, qty)
                      q1 == fSub(Get(w1.items, item_name), qty)
                  IN  Result([w1 EXCEPT !.items =
                                 IF fEq(q1, Zero)
                                 THEN KeepOthers(w1.items, item_name)
                                 ELSE Put(w1.items, item_name, q1)],
                             TRUE, NoError)

get_item_count(w) == Len(w.items)

\* ------------------------------------------------------- request inputs
\* Text is a sequence of characters; SP is the blank.
SP == " "

RECURSIVE lstrip(_)
lstrip(s) == IF s # <<>> /\ Head(s) = SP THEN lstrip(Tail(s)) ELSE s

RECURSIVE rstrip(_)
rstrip(s) ==
    IF s # <<>> /\ s[Len(s)] = SP THEN rstrip(SubSeq(s, 1, Len(s) - 1)) ELSE s

strip(s) == rstrip(lstrip(s))

\* A numeric form field as sent: absent or empty, text that float() rejects,
\* a decimal numeral, or one of the literals "inf", "-inf", "nan".
Empty == [k |-> "empty", v |-> 0]
Garbage == [k |-> "text", v |-> 0]
Dec(n) == [k |-> "dec", v |-> n]

\* float(value): the float nearest to a numeral; "inf" and "nan" are accepted
float(value) == IF value.k = "dec" THEN Round(value.v) ELSE value

parse_float(value, default) ==
    IF value = Empty THEN default
    ELSE IF value = Garbage THEN None
    ELSE float(value)

\* ---------------------------------------------------------------- state
VARIABLES
    warehouses,          \* app.py: id -> Warehouse
    next_warehouse_id,   \* app.py: the id the next created warehouse gets
    last                 \* the request served last and its outcome

vars == <<warehouses, next_warehouse_id, last>>

Outcome(op, id, ok, err) == [op |-> op, id |-> id, ok |-> ok, err |-> err]

Init ==
    /\ warehouses = <<>>
    /\ next_warehouse_id = 1
    /\ last = Outcome("start", 0, TRUE, NoError)

ErrName == "Warehouse name is required"
ErrCapNumber == "Capacity must be a number"
ErrCapPositive == "Capacity must be positive"
ErrCapStock == "Cannot reduce capacity below current stock"
ErrWarehouse == "Warehouse not found"
ErrItemName == "Item name is required"
ErrQtyNumber == "Quantity must be a number"
ErrRaised == "exception"

validate_warehouse_form(name, capacity, min_capacity) ==
    IF name = <<>> THEN ErrName
    ELSE IF capacity = None THEN ErrCapNumber
    ELSE IF fLe(capacity, Zero) THEN ErrCapPositive
    ELSE IF fLt(capacity, min_capacity) THEN ErrCapStock
    ELSE NoError

\* POST /warehouse/new
create_warehouse(rawname, rawcap) ==
    LET name == strip(rawname)
        capacity == parse_float(rawcap, Zero)
        error == validate_warehouse_form(name, capacity, Zero)
        made == Warehouse_init(name, capacity, Zero)
    IN  IF error # NoError
        THEN /\ last' = Outcome("create", next_warehouse_id, FALSE, error)
             /\ UNCHANGED <<warehouses, next_warehouse_id>>
        ELSE IF ~made.ok
        THEN /\ last' = Outcome("create", next_warehouse_id, FALSE, ErrRaised)
             /\ UNCHANGED <<warehouses, next_warehouse_id>>
        ELSE /\ warehouses' = [i \in DOMAIN warehouses \cup {next_warehouse_id}
                                 |-> IF i = next_warehouse_id THEN made.w
                                     ELSE warehouses[i]]
             /\ next_warehouse_id' = next_warehouse_id + 1
             /\ last' = Outcome("create", next_warehouse_id, TRUE, NoError)

\* get_warehouse_or_redirect: the handlers below go on only for a known id
Known(warehouse_id) == warehouse_id \in DOMAIN warehouses

NotFound(op, warehouse_id) ==
    /\ last' = Outcome(op, warehouse_id, FALSE, ErrWarehouse)
    /\ UNCHANGED <<warehouses, next_warehouse_id>>

\* edit as it would be if the name were stored ahead of the validation
edit_warehouse_name_first(warehouse_id, rawname, rawcap) ==
    IF ~Known(warehouse_id) THEN NotFound("edit", warehouse_id)
    ELSE LET warehouse == warehouses[warehouse_id]
             name == strip(rawname)
             capacity == parse_float(rawcap, Zero)
             error == validate_warehouse_form(name, capacity, warehouse.saldo)
         IN  /\ last' = Outcome("edit", warehouse_id, error = NoError, error)
             /\ warehouses' =
                    [warehouses EXCEPT
                       ![warehouse_id] =
                           IF error # NoError
                           THEN [warehouse EXCEPT !.name = name]
                           ELSE [warehouse EXCEPT !.name = name,
                                                  !.tilavuus = capacity]]
             /\ UNCHANGED next_warehouse_id

\* POST /warehouse/<id>/edit
edit_warehouse(warehouse_id, rawname, rawcap) ==
    IF ~Known(warehouse_id) THEN NotFound("edit", warehouse_id)
    ELSE LET warehouse == warehouses[warehouse_id]
             name == strip(rawname)
             capacity == parse_float(rawcap, Zero)
             error == validate_warehouse_form(name, capacity, warehouse.saldo)
         IN  /\ last' = Outcome("edit", warehouse_id, error = NoError, error)
             /\ warehouses' =
                    IF error # NoError THEN warehouses
                    ELSE [warehouses EXCEPT
                            ![warehouse_id] = [warehouse EXCEPT
                                                 !.name = name,
                                                 !.tilavuus = capacity]]
             /\ UNCHANGED next_warehouse_id

\* add-item as it would be if it stocked the newest warehouse, not the chosen
add_item_to_newest(warehouse_id, idtext, rawitem, rawqty) ==
    IF idtext \/ ~Known(warehouse_id) THEN NotFound("add_item", warehouse_id)
    ELSE LET item_name == strip(rawitem)
             quantity == parse_float(rawqty, Zero)
             newest == CHOOSE k \in DOMAIN warehouses :
                          \A j \in DOMAIN warehouses : j <= k
             res == Warehouse_add_item(warehouses[newest], item_name, quantity)
         IN  /\ UNCHANGED next_warehouse_id
             /\ IF item_name = <<>>
                THEN /\ last' = Outcome("add_item", warehouse_id, FALSE,
                                        ErrItemName)
                     /\ UNCHANGED warehouses
                ELSE IF quantity = None
                THEN /\ last' = Outcome("add_item", warehouse_id, FALSE,
                                        ErrQtyNumber)
                     /\ UNCHANGED warehouses
                ELSE /\ last' = Outcome("add_item", warehouse_id, res.ok,
                                        res.err)
                     /\ warehouses' = [warehouses EXCEPT ![newest] = res.w]

\* POST /add-item; idtext is TRUE when int() rejects the warehouse_id field
add_item(warehouse_id, idtext, rawitem, rawqty) ==
    IF idtext \/ ~Known(warehouse_id) THEN NotFound("add_item", warehouse_id)
    ELSE LET item_name == strip(rawitem)
             quantity == parse_float(rawqty, Zero)
             res == Warehouse_add_item(warehouses[warehouse_id], item_name,
                                       quantity)
         IN  /\ UNCHANGED next_warehouse_id
             /\ IF item_name = <<>>
                THEN /\ last' = Outcome("add_item", warehouse_id, FALSE,
                                        ErrItemName)
                     /\ UNCHANGED warehouses
                ELSE IF quantity = None
                THEN /\ last' = Outcome("add_item", warehouse_id, FALSE,
                                        ErrQtyNumber)
                     /\ UNCHANGED warehouses
                ELSE /\ last' = Outcome("add_item", warehouse_id, res.ok,
                                        res.err)
                     /\ warehouses' = [warehouses EXCEPT ![warehouse_id] = res.w]

\* POST /warehouse/<id>/remove-item/<item_name>
remove_item(warehouse_id, item_name, rawqty) ==
    IF ~Known(warehouse_id) THEN NotFound("remove_item", warehouse_id)
    ELSE LET quantity == IF rawqty = Empty THEN None
                         ELSE parse_float(rawqty, Zero)
             res == Warehouse_remove_item(warehouses[warehouse_id], item_name,
                                          quantity)
         IN  /\ UNCHANGED next_warehouse_id
             /\ IF rawqty # Empty /\ quantity = None
                THEN /\ last' = Outcome("remove_item", warehouse_id, FALSE,
                                        ErrQtyNumber)
                     /\ UNCHANGED warehouses
                ELSE /\ last' = Outcome("remove_item", warehouse_id, res.ok,
                                        res.err)
                     /\ warehouses' = [warehouses EXCEPT ![warehouse_id] = res.w]

\* delete as it would be if it gave the ids above the remaining keys back
delete_warehouse_reclaims_ids(warehouse_id) ==
    IF ~Known(warehouse_id) THEN NotFound("delete", warehouse_id)
    ELSE LET rest == DOMAIN warehouses \ {warehouse_id}
         IN  /\ warehouses' = [i \in rest |-> warehouses[i]]
             /\ last' = Outcome("delete", warehouse_id, TRUE, NoError)
             /\ next_warehouse_id' =
                    IF rest = {} THEN 1
                    ELSE (CHOOSE k \in rest : \A j \in rest : j <= k) + 1

\* POST /warehouse/<id>/delete
delete_warehouse(warehouse_id) ==
    IF ~Known(warehouse_id) THEN NotFound("delete", warehouse_id)
    ELSE /\ warehouses' = [i \in DOMAIN warehouses \ {warehouse_id}
                             |-> warehouses[i]]
         /\ last' = Outcome("delete", warehouse_id, TRUE, NoError)
         /\ UNCHANGED next_warehouse_id

\* ------------------------------------------------- the whole application
\* Several warehouses side by side, requests with few distinct values.
WarehouseNames == {<<SP>>, <<"w">>, <<SP, "v">>}
ItemNames == {<<>>, <<"a", SP>>}
PathItemNames == {<<"a">>, <<"b">>}
Capacities == {Garbage, Dec(0), Dec(2)}
Quantities == {Empty, Garbage, Dec(1), Dec(2)}
Ids == 0 .. (MaxId + 1)

Next ==
    \/ /\ next_warehouse_id <= MaxId
       /\ \E n \in WarehouseNames, c \in Capacities : create_warehouse(n, c)
    \/ \E i \in Ids, n \in WarehouseNames, c \in Capacities :
          edit_warehouse(i, n, c)
    \/ \E i \in Ids, t \in BOOLEAN, n \in ItemNames, q \in Quantities :
          add_item(i, t, n, q)
    \/ \E i \in Ids, n \in PathItemNames, q \in Quantities :
          remove_item(i, n, q)
    \/ \E i \in Ids : delete_warehouse(i)

Spec == Init /\ [][Next]_vars

\* ------------------------------------------------- one warehouse in depth
\* The first warehouse only, requests over the whole range of float values.
OneNames == {<<"w">>}
OneItemNames == {<<"a">>, <<"b", SP>>}
OnePathItemNames == {<<"a">>, <<"b">>}
OneCapacities == {Empty, Dec(4), Inf, NaN}
OneQuantities == {Empty, Dec(-1), Dec(1), Dec(2), Inf, NaN}
OneIds == {1}

NextOne ==
    \/ /\ next_warehouse_id = 1
       /\ \E n \in OneNames, c \in OneCapacities : create_warehouse(n, c)
    \/ \E i \in OneIds, n \in OneNames, c \in OneCapacities :
          edit_warehouse(i, n, c)
    \/ \E i \in OneIds, n \in OneItemNames, q \in OneQuantities :
          add_item(i, FALSE, n, q)
    \/ \E i \in OneIds, n \in OnePathItemNames, q \in OneQuantities :
          remove_item(i, n, q)
    \/ \E i \in OneIds : delete_warehouse(i)

SpecOne == Init /\ [][NextOne]_vars

\* ------------------------------------------ the Warehouse class by itself
\* A caller of the class (spec.md section 6) constructs a Warehouse and calls
\* its methods with numbers; the object is kept under key 1.
CoreCapacities == {Zero, Fin(4), Inf}
CoreInitial == {Fin(-1), Zero, Fin(2), Fin(6)}
CoreItemNames == {<<"a">>, <<"b">>}
CoreQuantities == {Fin(-1), Zero, Fin(1), Fin(2), Fin(3)}

new_warehouse(name, tilavuus, alku_saldo) ==
    LET made == Warehouse_init(name, tilavuus, alku_saldo)
    IN  /\ last' = Outcome("new", 1, made.ok,
                           IF made.ok THEN NoError ELSE ErrRaised)
        /\ warehouses' = IF made.ok THEN [i \in {1} |-> made.w] ELSE warehouses
        /\ UNCHANGED next_warehouse_id

call_add_item(item_name, quantity) ==
    LET res == Warehouse_add_item(warehouses[1], item_name, quantity)
    IN  /\ Known(1)
        /\ last' = Outcome("add_item", 1, res.ok, res.err)
        /\ warehouses' = [warehouses EXCEPT ![1] = res.w]
        /\ UNCHANGED next_warehouse_id

call_remove_item(item_name, quantity) ==
    LET res == Warehouse_remove_item(warehouses[1], item_name, quantity)
    IN  /\ Known(1)
        /\ last' = Outcome("remove_item", 1, res.ok, res.err)
        /\ warehouses' = [warehouses EXCEPT ![1] = res.w]
        /\ UNCHANGED next_warehouse_id

NextCore ==
    \/ \E t \in CoreCapacities, a \in CoreInitial :
          new_warehouse(<<"w">>, t, a)
    \/ \E n \in CoreItemNames, q \in CoreQuantities : call_add_item(n, q)
    \/ \E n \in CoreItemNames, q \in CoreQuantities \cup {None} :
          call_remove_item(n, q)

SpecCore == Init /\ [][NextCore]_vars

\* ---------------------------------------------------------------- claims
Live == {warehouses[i] : i \in DOMAIN warehouses}

\* C1: for every warehouse, after any sequence of create, add_item,
\* remove_item and edit requests, 0 <= saldo <= tilavuus.
C1_OccupiedWithinCapacity ==
    \A w \in Live : fLe(Zero, w.saldo) /\ fLe(w.saldo, w.tilavuus)

\* C2: in every state of a warehouse, from the one right after construction
\* on, the sum of the item quantities equals saldo.
C2_ItemSumIsOccupied ==
    \A w \in Live : fEq(ItemSum(w.items), w.saldo)

\* C3: every item present in a warehouse has a strictly positive quantity.
C3_ItemsPositive ==
    \A w \in Live : \A k \in DOMAIN w.items : fGt(w.items[k].qty, Zero)

\* C4: an add_item or remove_item request that reports failure leaves name,
\* tilavuus, saldo and items of every warehouse as they were.
C4_FailureChangesNothing ==
    [][(last'.op \in {"add_item", "remove_item"} /\ ~last'.ok)
          => warehouses' = warehouses]_vars

\* C4 happens: an add_item was refused for lack of space in a warehouse that
\* holds items, and a remove_item could be refused next.
C4_Witness ==
    /\ last.op = "add_item" /\ ~last.ok /\ last.err = ErrSpace
    /\ Known(last.id) /\ warehouses[last.id].items # <<>>

\* the quantities and item names a request can carry to a Warehouse method
Amounts == {parse_float(q, Zero) : q \in OneQuantities} \ {None}
Stocked == {strip(n) : n \in OneItemNames}

\* C5: add_item(X, q) followed by remove_item(X, q), for 0 < q <= free space,
\* both succeed and give back the items and saldo the warehouse had.
C5_RoundTrip ==
    \A w \in Live : \A X \in Stocked : \A q \in Amounts :
        (fGt(q, Zero) /\ fLe(q, paljonko_mahtuu(w)))
        => LET added == Warehouse_add_item(w, X, q)
               removed == Warehouse_remove_item(added.w, X, q)
           IN  /\ added.ok
               /\ removed.ok
               /\ removed.w.items = w.items
               /\ removed.w.saldo = w.saldo

\* C6: with free space f > 0, add_item of exactly f succeeds and leaves no
\* free space, and add_item of f + 1 is refused for lack of space.
C6_CapacityBoundary ==
    \A w \in Live : \A X \in Stocked :
        LET f == paljonko_mahtuu(w)
            exact == Warehouse_add_item(w, X, f)
            over == Warehouse_add_item(w, X, fAdd(f, Fin(1)))
        IN  fGt(f, Zero)
            => /\ exact.ok
               /\ fEq(paljonko_mahtuu(exact.w), Zero)
               /\ ~over.ok /\ over.err = ErrSpace

\* C7: where item X has quantity n, remove_item(X, n) succeeds and deletes
\* the key X, and remove_item(X, n + 1) is refused as more than is held.
C7_StockBoundary ==
    \A w \in Live : \A X \in Keys(w.items) :
        LET n == Get(w.items, X)
            exact == Warehouse_remove_item(w, X, n)
            over == Warehouse_remove_item(w, X, fAdd(n, Fin(1)))
        IN  /\ exact.ok
            /\ X \notin Keys(exact.w.items)
            /\ ~over.ok /\ over.err = ErrNotEnough

\* C8: remove_item(X) without a quantity, X present, succeeds, deletes the
\* key X, lowers saldo by the quantity X had and leaves the other items.
C8_RemoveAll ==
    \A w \in Live : \A X \in Keys(w.items) :
        LET n == Get(w.items, X)
            all == Warehouse_remove_item(w, X, None)
        IN  /\ all.ok
            /\ all.w.items = KeepOthers(w.items, X)
            /\ all.w.saldo = fSub(w.saldo, n)

\* C9: an edit with a name succeeds exactly when the new capacity is > 0 and
\* >= saldo; then tilavuus is the new capacity and saldo and items are as
\* before; otherwise tilavuus is as before.
C9_Resize ==
    [][\A n \in OneNames : \A c \in OneCapacities :
          (last'.op = "edit" /\ Known(1) /\ strip(n) # <<>>
              /\ edit_warehouse(1, n, c))
          => LET old == warehouses[1]
                 new == warehouses'[1]
                 capacity == parse_float(c, Zero)
                 valid == /\ capacity # None
                          /\ fGt(capacity, Zero)
                          /\ fGe(capacity, old.saldo)
             IN  /\ last'.ok <=> valid
                 /\ last'.ok => /\ new.tilavuus = capacity
                                /\ new.saldo = old.saldo
                                /\ new.items = old.items
                 /\ ~last'.ok => new.tilavuus = old.tilavuus]_vars

\* C10: the id counter never decreases and exceeds every key of the
\* registry, and a created warehouse gets the counter's value as its id: an
\* id above every id given before, never one that was given and deleted.
C10_IdsNeverReused ==
    [][/\ next_warehouse_id' >= next_warehouse_id
       /\ \A k \in DOMAIN warehouses' : k < next_warehouse_id'
       /\ \A k \in DOMAIN warehouses' \ DOMAIN warehouses :
             k = next_warehouse_id /\ k < next_warehouse_id']_vars

\* C10 happens: warehouse 2 was created after warehouse 1 had been deleted.
C10_Witness ==
    /\ last.op = "create" /\ last.ok /\ last.id = 2
    /\ DOMAIN warehouses = {2}

EditNames == WarehouseNames \cup OneNames
EditCapacities == Capacities \cup OneCapacities

C14_ErrorOrder ==
    [][/\ last'.op = "remove_item" =>
            \A n \in CoreItemNames : \A q \in CoreQuantities \cup {None} :
               (Known(1) /\ call_remove_item(n, q))
               => LET old == warehouses[1]
                      present == n \in Keys(old.items)
                      above == /\ present /\ q # None
                               /\ fGt(q, Zero) /\ fGt(q, Get(old.items, n))
                  IN  /\ ~present => (~last'.ok /\ last'.err = ErrNotFound)
                      /\ (present /\ q # None /\ fLe(q, Zero))
                            => (~last'.ok /\ last'.err = ErrQuantity)
                      /\ above => (~last'.ok /\ last'.err = ErrNotEnough)
                      /\ last'.err = ErrNotEnough => above
       /\ last'.op = "add_item" =>
            \A n \in CoreItemNames : \A q \in CoreQuantities :
               (Known(1) /\ fLe(q, Zero) /\ call_add_item(n, q))
               => (~last'.ok /\ last'.err = ErrQuantity)]_vars

\* C14 happens: an add_item of a quantity <= 0 was refused as "must be
\* positive" on a full warehouse that holds items.
C14_Witness ==
    /\ last.op = "add_item" /\ ~last.ok /\ last.err = ErrQuantity
    /\ Known(1) /\ warehouses[1].items # <<>>
    /\ fEq(paljonko_mahtuu(warehouses[1]), Zero)

\* C15: the checks of Warehouse and the ledger agree: when add_item's
\* checks pass, the ledger adds the quantity to saldo; when remove_item's
\* checks pass (0 < q <= items[X]), q <= saldo and the ledger takes the
\* quantity off saldo.
C15_ChecksAgree ==
    \A w \in Live : \A q \in Amounts :
        /\ (~fLe(q, Zero) /\ ~fGt(q, paljonko_mahtuu(w)))
              => lisaa_varastoon(w, q).saldo = fAdd(w.saldo, q)
        /\ \A X \in Keys(w.items) :
              (fGt(q, Zero) /\ fLe(q, Get(w.items, X)))
              => /\ fLe(q, w.saldo)
                 /\ ota_varastosta(w, q).saldo = fSub(w.saldo, q)

\* C16: add_item, remove_item and edit on warehouse i leave every other
\* warehouse, the set of ids and the id counter as they were; delete of i
\* removes that entry and nothing else; a request for an unknown id changes
\* nothing.
C16_Isolation ==
    [][LET i == last'.id
           op == last'.op
           others == (DOMAIN warehouses) \ {i}
       IN  /\ op \in {"add_item", "remove_item", "edit"}
              => /\ next_warehouse_id' = next_warehouse_id
                 /\ DOMAIN warehouses' = DOMAIN warehouses
                 /\ \A j \in others : warehouses'[j] = warehouses[j]
           /\ (op = "delete" /\ last'.ok)
              => /\ next_warehouse_id' = next_warehouse_id
                 /\ i \in DOMAIN warehouses
                 /\ DOMAIN warehouses' = others
                 /\ \A j \in others : warehouses'[j] = warehouses[j]
           /\ (op \in {"add_item", "remove_item", "edit", "delete"}
                 /\ i \notin DOMAIN warehouses)
              => /\ ~last'.ok
                 /\ warehouses' = warehouses
                 /\ next_warehouse_id' = next_warehouse_id]_vars

\* C16 happens: an add_item went through on warehouse 1 while warehouse 2
\* exists and holds nothing.
C16_Witness ==
    /\ last.op = "add_item" /\ last.ok /\ last.id = 1
    /\ DOMAIN warehouses = {1, 2}
    /\ warehouses[1].items # <<>> /\ warehouses[2].items = <<>>

\* C17: every warehouse in the registry has a non-empty name and a capacity
\* > 0, and a create that fails adds no entry and uses up no id.
C17_RegisteredValid ==
    [][/\ \A k \in DOMAIN warehouses' :
             /\ warehouses'[k].name # <<>>
             /\ fGt(warehouses'[k].tilavuus, Zero)
       /\ (last'.op = "create" /\ ~last'.ok)
             => /\ warehouses' = warehouses
                /\ next_warehouse_id' = next_warehouse_id]_vars

\* C18: get_item_count() is the number of item names with a positive
\* quantity, and it is 0 exactly when saldo is 0.
C18_CountAndOccupied ==
    \A w \in Live :
        /\ get_item_count(w) =
              Cardinality({n \in Keys(w.items) : fGt(Get(w.items, n), Zero)})
        /\ (get_item_count(w) = 0) <=> fEq(w.saldo, Zero)

====
